---- MODULE Spec2Model ----
(***************************************************************************)
(* A model of sync_vnt.py: the synchronisation of local TSV files with the *)
(* scripts of a project on the VNT server.                                 *)
(*                                                                         *)
(* A Python str is a sequence of one-character strings, so that strip,     *)
(* split, join and the line structure of a file are computed as the code   *)
(* computes them.  A TSVTriple is a tuple <<char, orig, trans>>.  A file   *)
(* is the flat text that was written to it.                                *)
(***************************************************************************)
EXTENDS Integers, Sequences, FiniteSets, TLC

VARIABLES
    vnt,            \* the server: the project's scripts, each with its lines
    disk,           \* the working directory: the text of each file that exists
    dry_run,        \* the module's global flag
    pc,             \* where sync_project stands
    k,              \* index of the script the for-loop of sync_project is at
    vnt_lines,      \* sync_project's locals, as last assigned
    vnt_triples,
    tsv_lines,
    tsv_lines_new,
    updates,
    all_updates,
    action,         \* sync_project: the last answer read at the final prompt
    compare,        \* the frame of the last call of compare_lines
    chunk_list,     \* submit_updates: the chunks still to go through
    sent,           \* the payloads the server has received, in order
    err,            \* the exception that ended the run, or "none"
    run,            \* the number of the run of sync_project, from 1
    opened,         \* the files this run has opened for writing, in order
    prev_updates    \* all_updates as the previous run left it

vars == <<vnt, disk, opened, dry_run, pc, k, vnt_lines, vnt_triples, tsv_lines,
          tsv_lines_new, updates, all_updates, action, compare, chunk_list, sent,
          err, run, opened, prev_updates>>

(***************************************************************************)
(* Bounds                                                                  *)
(***************************************************************************)
NumScripts == 2     \* scripts of the project
MaxLines   == 2     \* lines of a script, records of a local file
MaxHist    == 2     \* translations in the history of a line
MaxRuns    == 2     \* runs of sync_project

(***************************************************************************)
(* Text                                                                    *)
(***************************************************************************)
NL  == "\n"
CR  == "\r"
TAB == "\t"
Empty == << >>

\* a character outside ASCII, written by its code point (HIRAGANA LETTER A)
JA == "U+3042"

\* the bytes of one character in UTF-8, the encoding of the local files
Utf8Len(c) == IF c = JA THEN 3 ELSE 1

\* len(text.encode())
EncodedLen(text) ==
    LET n(b) == Cardinality({i \in 1..Len(text) : Utf8Len(text[i]) = b})
    IN  n(1) + 2 * n(2) + 3 * n(3) + 4 * n(4)

Min(a, b) == IF a <= b THEN a ELSE b

\* "\n" in s
HasNL(s) == \E i \in 1..Len(s) : s[i] = NL

RECURSIVE LStripNL(_)
LStripNL(s) == IF s # Empty /\ Head(s) = NL THEN LStripNL(Tail(s)) ELSE s

RECURSIVE RStripNL(_)
RStripNL(s) ==
    IF s # Empty /\ s[Len(s)] = NL THEN RStripNL(SubSeq(s, 1, Len(s) - 1)) ELSE s

\* s.strip("\n")
StripNL(s) == RStripNL(LStripNL(s))

\* sep.join(parts)
RECURSIVE Join(_, _)
Join(sep, parts) ==
    IF parts = << >> THEN Empty
    ELSE IF Len(parts) = 1 THEN parts[1]
    ELSE parts[1] \o <<sep>> \o Join(sep, Tail(parts))

\* s.split(sep): the fields between the separators, at least one field
RECURSIVE SplitFrom(_, _, _)
SplitFrom(s, sep, field) ==
    IF s = Empty THEN <<field>>
    ELSE IF Head(s) = sep THEN <<field>> \o SplitFrom(Tail(s), sep, Empty)
    ELSE SplitFrom(Tail(s), sep, Append(field, Head(s)))

Split(s, sep) == SplitFrom(s, sep, Empty)

\* for line in f, on a file opened in text mode: the lines of a text, each
\* with its terminator; "\n", "\r" and "\r\n" each end a line and reach
\* the program as "\n"; a last line without terminator is a line too
RECURSIVE FileLinesFrom(_)
FileLinesFrom(text) ==
    IF text = Empty THEN << >>
    ELSE LET stops == {i \in 1..Len(text) : text[i] \in {NL, CR}}
         IN  IF stops = {} THEN <<text>>
             ELSE LET stop == CHOOSE i \in stops : \A j \in stops : i <= j
                      last == IF /\ text[stop] = CR
                                 /\ stop < Len(text)
                                 /\ text[stop + 1] = NL
                              THEN stop + 1 ELSE stop
                  IN  <<SubSeq(text, 1, stop - 1) \o <<NL>>>>
                      \o FileLinesFrom(SubSeq(text, last + 1, Len(text)))

FileLines(text) == FileLinesFrom(text)

(***************************************************************************)
(* The Record Codec and the Remote Snapshot Adapter                        *)
(***************************************************************************)
SENTINEL == <<"#">>

\* the translation generate_tsv_from_vnt takes for a line
CurrentTranslation(line) ==
    IF line.translations # << >> THEN line.translations[1].translation ELSE Empty

\* the check generate_tsv_from_vnt makes of one line: "ok", or the error
\* that ends the generator there.  bound says whether the local line_number
\* has been assigned (by this or an earlier line with translations): the
\* messages of the newline error and of the warning read it.
LineCheck(line, bound) ==
    LET orig  == line.original
        trans == CurrentTranslation(line)
    IN  IF line.translations # << >> /\ trans = SENTINEL THEN "reserved"
        ELSE IF HasNL(StripNL(orig)) \/ HasNL(StripNL(trans))
             THEN (IF bound THEN "internal newline" ELSE "unbound line_number")
        ELSE IF StripNL(orig) # orig \/ StripNL(trans) # trans
             THEN (IF bound THEN "ok" ELSE "unbound line_number")
        ELSE "ok"

\* the lines at which generate_tsv_from_vnt reaches its warning
LineWarns(line) ==
    \/ StripNL(line.original) # line.original
    \/ StripNL(CurrentTranslation(line)) # CurrentTranslation(line)

RECURSIVE GenerateFrom(_, _, _, _)
GenerateFrom(lines, i, bound, triples) ==
    IF i > Len(lines) THEN [error |-> "none", triples |-> triples]
    ELSE LET line   == lines[i]
             bound1 == bound \/ line.translations # << >>
             check  == LineCheck(line, bound1)
         IN  IF check # "ok" THEN [error |-> check, triples |-> << >>]
             ELSE GenerateFrom(lines, i + 1, bound1,
                               Append(triples, <<line.character_name, line.original,
                                                 CurrentTranslation(line)>>))

\* list(generate_tsv_from_vnt(vnt)): the triples, and the error that ended
\* the generator ("none" if it ran to its end)
generate_tsv_from_vnt(lines) == GenerateFrom(lines, 1, FALSE, << >>)

\* the text one triple becomes in dump_tsv_file, with its line terminator
DumpLine(t) ==
    LET trans == IF t[3] = Empty THEN SENTINEL ELSE t[3]
    IN  Join(TAB, <<t[1], StripNL(t[2]), StripNL(trans)>>) \o <<NL>>

\* the content of the file dump_tsv_file(tsv, filename) leaves
RECURSIVE dump_tsv_file(_)
dump_tsv_file(tsv) ==
    IF tsv = << >> THEN Empty ELSE DumpLine(Head(tsv)) \o dump_tsv_file(Tail(tsv))

\* one line of load_tsv_file: the triple, or << >> when the line does not
\* unpack into three fields
LoadLine(line) ==
    LET fields == Split(RStripNL(line), TAB)
    IN  IF Len(fields) # 3 THEN << >>
        ELSE <<fields[1], fields[2],
               IF fields[3] = SENTINEL THEN Empty ELSE fields[3]>>

\* a variant that leaves out the lines that do not unpack
load_tsv_file_SkipsBadLines(text) ==
    LET lines == FileLines(text)
        recs  == [i \in 1..Len(lines) |-> LoadLine(lines[i])]
    IN  [error |-> "none", triples |-> SelectSeq(recs, LAMBDA r : r # << >>)]

\* list(load_tsv_file(filename)) on a file holding text
load_tsv_file(text) ==
    LET lines == FileLines(text)
        recs  == [i \in 1..Len(lines) |-> LoadLine(lines[i])]
    IN  IF \E i \in 1..Len(recs) : recs[i] = << >>
        THEN [error |-> "format", triples |-> << >>]
        ELSE [error |-> "none", triples |-> recs]

(***************************************************************************)
(* The Reconciler: compare_lines                                           *)
(***************************************************************************)
\* a variant that looks at the current translation only
InHistory_CurrentOnly(trans0, line) ==
    line.translations # << >> /\ line.translations[1].translation = trans0

\* trans0 in (x["translation"] for x in line["translations"])
InHistory(trans0, line) ==
    \E h \in 1..Len(line.translations) : line.translations[h].translation = trans0

\* the record compare_lines adds to overwrite_info
OverwriteInfo(i, t0, t1, line) ==
    [line       |-> i,
     line_no    |-> line.line_number + 1,
     char       |-> t0[1],
     orig       |-> t0[2],
     local      |-> t0[3],
     vnt        |-> t1[3],
     vnt_author |-> line.translations[1].created_by.username]

\* a variant that takes the server's translation whenever the two differ
MergeLine_DropsNovel(frame, i, t0, t1, line) ==
    [frame EXCEPT !.tsv_lines_new = Append(@, <<t0[1], t0[2], t1[3]>>)]

\* a variant without the test for an empty local translation
MergeLine_UploadsBlank(frame, i, t0, t1, line) ==
    IF t0[3] = t1[3]
    THEN [frame EXCEPT !.tsv_lines_new = Append(@, t0)]
    ELSE IF \E h \in 1..Len(line.translations) : line.translations[h].translation = t0[3]
    THEN [frame EXCEPT !.tsv_lines_new = Append(@, <<t0[1], t0[2], t1[3]>>)]
    ELSE [frame EXCEPT
            !.tsv_lines_new = Append(@, t0),
            !.updates = Append(@, <<line.id, t0[3]>>),
            !.overwrite_info =
                IF t1[3] # Empty THEN Append(@, OverwriteInfo(i, t0, t1, line)) ELSE @]

\* a variant that records an overwrite for every upload
MergeLine_RecordsAll(frame, i, t0, t1, line) ==
    IF t0[3] = t1[3]
    THEN [frame EXCEPT !.tsv_lines_new = Append(@, t0)]
    ELSE IF t0[3] = Empty
            \/ \E h \in 1..Len(line.translations) : line.translations[h].translation = t0[3]
    THEN [frame EXCEPT !.tsv_lines_new = Append(@, <<t0[1], t0[2], t1[3]>>)]
    ELSE [frame EXCEPT
            !.tsv_lines_new = Append(@, t0),
            !.updates = Append(@, <<line.id, t0[3]>>),
            !.overwrite_info =
                Append(@, [line |-> i, line_no |-> line.line_number + 1,
                           char |-> t0[1], orig |-> t0[2], local |-> t0[3],
                           vnt |-> t1[3], vnt_author |-> "None"])]

\* a variant that puts a new upload at the head of the list
MergeLine_PrependsUpload(frame, i, t0, t1, line) ==
    LET trans0 == t0[3]
        trans1 == t1[3]
    IN  IF trans0 = trans1
        THEN [frame EXCEPT !.tsv_lines_new = Append(@, <<t0[1], t0[2], trans0>>)]
        ELSE IF trans0 = Empty \/ InHistory(trans0, line)
        THEN [frame EXCEPT !.tsv_lines_new = Append(@, <<t0[1], t0[2], trans1>>)]
        ELSE [frame EXCEPT
                !.tsv_lines_new = Append(@, <<t0[1], t0[2], trans0>>),
                !.updates = <<<<line.id, trans0>>>> \o @,
                !.overwrite_info =
                    IF trans1 # Empty
                    THEN Append(@, OverwriteInfo(i, t0, t1, line))
                    ELSE @]

\* a variant that takes the server's translation wherever the two differ
MergeLine_ServerWins(frame, i, t0, t1, line) ==
    [frame EXCEPT !.tsv_lines_new = Append(@, <<t0[1], t0[2], t1[3]>>)]

\* the body of the loop of compare_lines after the alignment check, for the
\* i-th line (counted from 1): the frame with the line's decision added
MergeLine(frame, i, t0, t1, line) ==
    LET trans0 == t0[3]
        trans1 == t1[3]
    IN  IF trans0 = trans1
        THEN [frame EXCEPT !.tsv_lines_new = Append(@, <<t0[1], t0[2], trans0>>)]
        ELSE IF trans0 = Empty \/ InHistory(trans0, line)
        THEN [frame EXCEPT !.tsv_lines_new = Append(@, <<t0[1], t0[2], trans1>>)]
        ELSE [frame EXCEPT
                !.tsv_lines_new = Append(@, <<t0[1], t0[2], trans0>>),
                !.updates = Append(@, <<line.id, trans0>>),
                !.overwrite_info =
                    IF trans1 # Empty
                    THEN Append(@, OverwriteInfo(i, t0, t1, line))
                    ELSE @]

\* a variant whose alignment check compares the original text only
RECURSIVE CompareFrom_OrigOnly(_, _, _, _, _)
CompareFrom_OrigOnly(i, frame, tsv, triples, lines) ==
    IF i > Min(Len(tsv), Min(Len(triples), Len(lines))) THEN frame
    ELSE IF tsv[i][2] # triples[i][2]
         THEN [frame EXCEPT !.raised = "alignment", !.at = i]
         ELSE CompareFrom_OrigOnly(i + 1,
                                   MergeLine(frame, i, tsv[i], triples[i], lines[i]),
                                   tsv, triples, lines)

\* the loop of compare_lines over zip(tsv_lines, vnt_triples, vnt_lines),
\* from the i-th position on
RECURSIVE CompareFrom(_, _, _, _, _)
CompareFrom(i, frame, tsv, triples, lines) ==
    IF i > Min(Len(tsv), Min(Len(triples), Len(lines))) THEN frame
    ELSE IF tsv[i][1] # triples[i][1] \/ tsv[i][2] # triples[i][2]
         THEN [frame EXCEPT !.raised = "alignment", !.at = i]
         ELSE CompareFrom(i + 1, MergeLine(frame, i, tsv[i], triples[i], lines[i]),
                          tsv, triples, lines)

\* the frame of a call of compare_lines: its parameters, its locals, and
\* where it stands ("new": not called, "loop", "prompt", "returned",
\* "raised" with the error in raised and, for a mismatch, its position in
\* at); action is the last answer read at its prompt
NewFrame ==
    [where |-> "new", raised |-> "none", at |-> 0, action |-> "None",
     tsv_lines |-> << >>, vnt_triples |-> << >>, vnt_lines |-> << >>,
     tsv_lines_new |-> << >>, updates |-> << >>, overwrite_info |-> << >>]

\* compare_lines up to its prompt: the frame when the loop has ended or a
\* ValueError has ended the call
CompareLoop(tsv, triples, lines) ==
    LET called == [NewFrame EXCEPT !.where = "loop", !.tsv_lines = tsv,
                                   !.vnt_triples = triples, !.vnt_lines = lines]
        looped == CompareFrom(1, called, tsv, triples, lines)
    IN  IF Len(tsv) # Len(lines)
        THEN [called EXCEPT !.where = "raised", !.raised = "length"]
        ELSE IF looped.raised # "none" THEN [looped EXCEPT !.where = "raised"]
        ELSE IF looped.overwrite_info # << >> THEN [looped EXCEPT !.where = "prompt"]
        ELSE [looped EXCEPT !.where = "returned"]

(***************************************************************************)
(* The Upload Dispatcher: submit_updates                                   *)
(***************************************************************************)
UPLOAD_CHUNK_SIZE == 25

\* a variant that yields the full chunks only
RECURSIVE chunks_FullOnly(_, _)
chunks_FullOnly(l, size) ==
    IF Len(l) < size THEN << >>
    ELSE <<SubSeq(l, 1, size)>> \o chunks_FullOnly(SubSeq(l, size + 1, Len(l)), size)

\* list(chunks(l, size))
RECURSIVE chunks(_, _)
chunks(l, size) ==
    IF l = << >> THEN << >>
    ELSE <<SubSeq(l, 1, Min(size, Len(l)))>>
         \o chunks(SubSeq(l, Min(size, Len(l)) + 1, Len(l)), size)

\* the JSON body posted for one chunk
Payload(chunk) ==
    [i \in 1..Len(chunk) |->
        [line |-> [id |-> chunk[i][1]], translation |-> chunk[i][2],
         language |-> [code |-> "en"]]]

\* an entry of a line's history on the server, as get_script_lines returns it
Entry(t) == [translation |-> t, created_by |-> [username |-> "ann"]]

\* the server takes the posted payload: each posted text becomes the current
\* translation of its line, ahead of the line's earlier history
ApplyUploads(v, payload) ==
    [s \in DOMAIN v |->
        [v[s] EXCEPT !.lines =
            [i \in DOMAIN v[s].lines |->
                LET line == v[s].lines[i]
                    js   == {j \in 1..Len(payload) : payload[j].line.id = line.id}
                IN  IF js = {} THEN line
                    ELSE LET j == CHOOSE x \in js : \A y \in js : y <= x
                         IN  [line EXCEPT !.translations =
                                 <<Entry(payload[j].translation)>> \o line.translations]]]]

(***************************************************************************)
(* The Sync Orchestrator: sync_project                                     *)
(***************************************************************************)
\* os.path.splitext(vnt_filename)[0] + ".tsv"; a file name is the tuple of
\* its root and its extensions
TsvName(script) == <<script.original_filename[1], ".tsv">>

\* a variant that dumps the snapshot under the name of the local file
RecoveryName_Same(tsv_filename) == tsv_filename

\* tsv_filename + ".1"
RecoveryName(tsv_filename) == tsv_filename \o <<".1">>

\* open(filename, "w") and the writes of dump_tsv_file: the file holds
\* exactly the dumped triples afterwards
WriteFile(d, filename, tsv) ==
    [f \in DOMAIN d \cup {filename} |->
        IF f = filename THEN dump_tsv_file(tsv) ELSE d[f]]

\* sum(1 for (_, _, a), (_, _, b) in zip(tsv_lines, tsv_lines_new) if a != b)
NumLocalUpdates(tsv, new) ==
    Cardinality({i \in 1..Min(Len(tsv), Len(new)) : tsv[i][3] # new[i][3]})

\* what input() raises when the input has ended or the operator interrupts
Interrupts == {"EOFError", "KeyboardInterrupt"}

\* what input() may give at a prompt: the line the operator types, or the
\* exception it raises
GateInputs    == {"abort", "print", "proceed", "yes", ""} \cup Interrupts
ConfirmInputs == {"yes", "no", "proceed", ""} \cup Interrupts

Script      == vnt[k]
\* get_script_lines(script["id"]): the model's server holds the English
\* translations only
FetchedLines == Script.lines
Generated   == generate_tsv_from_vnt(FetchedLines)
Loaded      == load_tsv_file(disk[TsvName(Script)])
Frame       == CompareLoop(Loaded.triples, Generated.triples, FetchedLines)

InLoop == pc = "loop" /\ k <= Len(vnt)

\* a variant that dumps the merged store whether or not it differs
FinishFile_AlwaysWrites(frame, tsv) ==
    /\ tsv_lines_new' = frame.tsv_lines_new
    /\ updates' = frame.updates
    /\ disk' = WriteFile(disk, TsvName(Script), frame.tsv_lines_new)
    /\ opened' = Append(opened, TsvName(Script))
    /\ all_updates' = all_updates \o frame.updates
    /\ k' = k + 1
    /\ pc' = "loop"
    /\ compare' = [frame EXCEPT !.where = "returned"]

\* sync_project, lines 325 to 333: compare_lines has returned frame
FinishFile(frame, tsv) ==
    /\ tsv_lines_new' = frame.tsv_lines_new
    /\ updates' = frame.updates
    /\ IF NumLocalUpdates(tsv, frame.tsv_lines_new) > 0
       THEN /\ disk' = WriteFile(disk, TsvName(Script), frame.tsv_lines_new)
            /\ opened' = Append(opened, TsvName(Script))
       ELSE UNCHANGED <<disk, opened>>
    /\ all_updates' = all_updates \o frame.updates
    /\ k' = k + 1
    /\ pc' = "loop"
    /\ compare' = [frame EXCEPT !.where = "returned"]

\* the script is empty on the server: skipped
SkipEmpty ==
    /\ InLoop
    /\ Script.line_count = 0
    /\ k' = k + 1
    /\ UNCHANGED <<prev_updates, run, action, vnt, disk, opened, dry_run, pc, vnt_lines, vnt_triples, tsv_lines,
                   tsv_lines_new, updates, all_updates, compare, chunk_list, sent, err>>

\* get_project_id or get_project_scripts raises: a GET of the project's
\* listing fails before the for-loop starts (the run stands at its first
\* script with nothing done yet)
ListingFails ==
    /\ pc = "loop"
    /\ k = 1
    /\ pc' = "failed"
    /\ err' = "transport"
    /\ UNCHANGED <<prev_updates, run, action, vnt, disk, opened, dry_run, k, vnt_lines,
                   vnt_triples, tsv_lines, tsv_lines_new, updates, all_updates,
                   compare, chunk_list, sent>>

\* get_script_lines raises: the GET of the script's lines fails
FetchFails ==
    /\ InLoop
    /\ Script.line_count # 0
    /\ pc' = "failed"
    /\ err' = "transport"
    /\ UNCHANGED <<prev_updates, run, action, vnt, disk, opened, dry_run, k, vnt_lines,
                   vnt_triples, tsv_lines, tsv_lines_new, updates, all_updates,
                   compare, chunk_list, sent>>

\* generate_tsv_from_vnt raises
ValidationFails ==
    /\ InLoop
    /\ Script.line_count # 0
    /\ Generated.error # "none"
    /\ vnt_lines' = FetchedLines
    /\ pc' = "failed"
    /\ err' = Generated.error
    /\ UNCHANGED <<prev_updates, run, action, vnt, disk, opened, dry_run, k, vnt_triples, tsv_lines, tsv_lines_new,
                   updates, all_updates, compare, chunk_list, sent>>

\* no local file yet: the snapshot is written as the local file
InitialDownload ==
    /\ InLoop
    /\ Script.line_count # 0
    /\ Generated.error = "none"
    /\ TsvName(Script) \notin DOMAIN disk
    /\ vnt_lines' = FetchedLines
    /\ vnt_triples' = Generated.triples
    /\ disk' = WriteFile(disk, TsvName(Script), Generated.triples)
    /\ opened' = Append(opened, TsvName(Script))
    /\ k' = k + 1
    /\ UNCHANGED <<prev_updates, run, action, vnt, dry_run, pc, tsv_lines, tsv_lines_new, updates, all_updates,
                   compare, chunk_list, sent, err>>

HasLocalFile ==
    /\ InLoop
    /\ Script.line_count # 0
    /\ Generated.error = "none"
    /\ TsvName(Script) \in DOMAIN disk

\* load_tsv_file raises: a line does not unpack into three fields
LoadFails ==
    /\ HasLocalFile
    /\ Loaded.error # "none"
    /\ vnt_lines' = FetchedLines
    /\ vnt_triples' = Generated.triples
    /\ pc' = "failed"
    /\ err' = Loaded.error
    /\ UNCHANGED <<prev_updates, run, action, vnt, disk, opened, dry_run, k, tsv_lines, tsv_lines_new, updates,
                   all_updates, compare, chunk_list, sent>>

\* a variant that queues the uploads decided before the mismatch
CompareFails_QueuesPartial ==
    /\ HasLocalFile
    /\ Loaded.error = "none"
    /\ Frame.where = "raised"
    /\ vnt_lines' = FetchedLines
    /\ vnt_triples' = Generated.triples
    /\ tsv_lines' = Loaded.triples
    /\ disk' = WriteFile(disk, RecoveryName(TsvName(Script)), Generated.triples)
    /\ opened' = Append(opened, RecoveryName(TsvName(Script)))
    /\ compare' = Frame
    /\ all_updates' = all_updates \o Frame.updates
    /\ pc' = "failed"
    /\ err' = Frame.raised
    /\ UNCHANGED <<prev_updates, run, action, vnt, dry_run, k, tsv_lines_new, updates, chunk_list, sent>>

\* a variant whose except clause dumps the snapshot and goes on with the
\* next script
CompareFails_GoesOn ==
    /\ HasLocalFile
    /\ Loaded.error = "none"
    /\ Frame.where = "raised"
    /\ vnt_lines' = FetchedLines
    /\ vnt_triples' = Generated.triples
    /\ tsv_lines' = Loaded.triples
    /\ disk' = WriteFile(disk, RecoveryName(TsvName(Script)), Generated.triples)
    /\ opened' = Append(opened, RecoveryName(TsvName(Script)))
    /\ compare' = Frame
    /\ k' = k + 1
    /\ err' = Frame.raised
    /\ UNCHANGED <<prev_updates, run, action, vnt, dry_run, pc, tsv_lines_new, updates,
                   all_updates, chunk_list, sent>>

\* compare_lines raises its ValueError: the except clause dumps the snapshot
\* to the recovery file and raises again
CompareFails ==
    /\ HasLocalFile
    /\ Loaded.error = "none"
    /\ Frame.where = "raised"
    /\ vnt_lines' = FetchedLines
    /\ vnt_triples' = Generated.triples
    /\ tsv_lines' = Loaded.triples
    /\ disk' = WriteFile(disk, RecoveryName(TsvName(Script)), Generated.triples)
    /\ opened' = Append(opened, RecoveryName(TsvName(Script)))
    /\ compare' = Frame
    /\ pc' = "failed"
    /\ err' = Frame.raised
    /\ UNCHANGED <<prev_updates, run, action, vnt, dry_run, k, tsv_lines_new, updates, all_updates,
                   chunk_list, sent>>

\* compare_lines has recorded overwrites and stops at its prompt
CompareAsks ==
    /\ HasLocalFile
    /\ Loaded.error = "none"
    /\ Frame.where = "prompt"
    /\ vnt_lines' = FetchedLines
    /\ vnt_triples' = Generated.triples
    /\ tsv_lines' = Loaded.triples
    /\ compare' = Frame
    /\ pc' = "gate"
    /\ UNCHANGED <<prev_updates, run, action, vnt, disk, opened, dry_run, k, tsv_lines_new, updates, all_updates,
                   chunk_list, sent, err>>

\* compare_lines returns without a prompt
CompareReturns ==
    /\ HasLocalFile
    /\ Loaded.error = "none"
    /\ Frame.where = "returned"
    /\ vnt_lines' = FetchedLines
    /\ vnt_triples' = Generated.triples
    /\ tsv_lines' = Loaded.triples
    /\ FinishFile(Frame, Loaded.triples)
    /\ UNCHANGED <<prev_updates, run, action, vnt, dry_run, chunk_list, sent, err>>

\* an exception leaves compare_lines at its prompt: the except clause of
\* sync_project dumps the snapshot to the recovery file and raises again
GateRaises(frame, exception) ==
    /\ disk' = WriteFile(disk, RecoveryName(TsvName(Script)), vnt_triples)
    /\ opened' = Append(opened, RecoveryName(TsvName(Script)))
    /\ pc' = "failed"
    /\ err' = exception
    /\ compare' = [frame EXCEPT !.where = "raised", !.raised = exception]
    /\ UNCHANGED <<prev_updates, run, action, vnt, dry_run, k, vnt_lines, vnt_triples,
                   tsv_lines, tsv_lines_new, updates, all_updates,
                   chunk_list, sent>>

\* an exception leaves sync_project at its final prompt
ConfirmRaises(exception) ==
    /\ pc' = "failed"
    /\ err' = exception
    /\ UNCHANGED <<prev_updates, run, action, vnt, disk, opened, dry_run, k, vnt_lines,
                   vnt_triples, tsv_lines, tsv_lines_new, updates, all_updates,
                   compare, chunk_list, sent>>

\* a variant that takes every answer but 'abort' and 'print' for 'proceed'
GateAnswer_Default ==
    /\ pc = "gate"
    /\ \E input \in GateInputs :
        LET frame == [compare EXCEPT !.action = input] IN
        IF input \in Interrupts THEN GateRaises(compare, input)
        ELSE IF input = "abort" THEN GateRaises(frame, "aborted")
        ELSE IF input # "print"
        THEN /\ FinishFile(frame, tsv_lines)
             /\ UNCHANGED <<prev_updates, run, action, vnt, dry_run, vnt_lines, vnt_triples,
                            tsv_lines, chunk_list, sent, err>>
        ELSE /\ compare' = frame
             /\ UNCHANGED <<prev_updates, run, action, vnt, disk, opened, dry_run, pc, k, vnt_lines,
                            vnt_triples, tsv_lines, tsv_lines_new, updates,
                            all_updates, chunk_list, sent, err>>

\* the operator answers the prompt of compare_lines
GateAnswer ==
    /\ pc = "gate"
    /\ \E input \in GateInputs :
        LET frame == [compare EXCEPT !.action = input] IN
        IF input \in Interrupts THEN GateRaises(compare, input)
        ELSE IF input = "abort" THEN GateRaises(frame, "aborted")
        ELSE IF input = "proceed"
        THEN /\ FinishFile(frame, tsv_lines)
             /\ UNCHANGED <<prev_updates, run, action, vnt, dry_run, vnt_lines, vnt_triples,
                            tsv_lines, chunk_list, sent, err>>
        ELSE /\ compare' = frame
             /\ UNCHANGED <<prev_updates, run, action, vnt, disk, opened, dry_run, pc, k, vnt_lines,
                            vnt_triples, tsv_lines, tsv_lines_new, updates,
                            all_updates, chunk_list, sent, err>>

\* the for-loop of sync_project has ended
LoopEnds ==
    /\ pc = "loop"
    /\ k > Len(vnt)
    /\ pc' = IF all_updates = << >> THEN "done" ELSE "confirm"
    /\ UNCHANGED <<prev_updates, run, action, vnt, disk, opened, dry_run, k, vnt_lines, vnt_triples, tsv_lines,
                   tsv_lines_new, updates, all_updates, compare, chunk_list, sent, err>>

\* a variant that uploads on every answer but 'no'
ConfirmAnswer_Default ==
    /\ pc = "confirm"
    /\ \E input \in ConfirmInputs :
        IF input \in Interrupts THEN ConfirmRaises(input)
        ELSE /\ action' = input
             /\ IF input # "no"
                THEN /\ pc' = "submit"
                     /\ chunk_list' = chunks(all_updates, UPLOAD_CHUNK_SIZE)
                ELSE /\ pc' = "done"
                     /\ chunk_list' = chunk_list
             /\ UNCHANGED <<prev_updates, run, vnt, disk, opened, dry_run, k, vnt_lines,
                            vnt_triples, tsv_lines, tsv_lines_new, updates,
                            all_updates, compare, sent, err>>

\* a variant that reads one answer and takes whatever is not 'yes' for 'no'
ConfirmAnswer_AsksOnce ==
    /\ pc = "confirm"
    /\ \E input \in ConfirmInputs :
        IF input \in Interrupts THEN ConfirmRaises(input)
        ELSE /\ action' = input
             /\ IF input = "yes"
                THEN /\ pc' = "submit"
                     /\ chunk_list' = chunks(all_updates, UPLOAD_CHUNK_SIZE)
                ELSE /\ pc' = "done"
                     /\ chunk_list' = chunk_list
             /\ UNCHANGED <<prev_updates, run, vnt, disk, opened, dry_run, k, vnt_lines,
                            vnt_triples, tsv_lines, tsv_lines_new, updates,
                            all_updates, compare, sent, err>>

\* the operator answers the final prompt
ConfirmAnswer ==
    /\ pc = "confirm"
    /\ \E input \in ConfirmInputs :
        IF input \in Interrupts THEN ConfirmRaises(input)
        ELSE /\ action' = input
             /\ IF input = "yes"
                THEN /\ pc' = "submit"
                     /\ chunk_list' = chunks(all_updates, UPLOAD_CHUNK_SIZE)
                ELSE IF input = "no"
                THEN /\ pc' = "done"
                     /\ chunk_list' = chunk_list
                ELSE UNCHANGED <<pc, chunk_list>>
             /\ UNCHANGED <<prev_updates, run, vnt, disk, opened, dry_run, k, vnt_lines,
                            vnt_triples, tsv_lines, tsv_lines_new, updates,
                            all_updates, compare, sent, err>>

\* submit_updates goes through one chunk: posted, or only printed in a dry
\* run.  The test of the flag and the post are one step here, for the runs
\* in which nothing assigns the flag after line 22; ReadFlag and PostChunk
\* are the two steps apart.
SubmitChunk ==
    /\ pc = "submit"
    /\ chunk_list # << >>
    /\ IF dry_run
       THEN UNCHANGED <<sent, vnt>>
       ELSE /\ sent' = Append(sent, Payload(Head(chunk_list)))
            /\ vnt' = ApplyUploads(vnt, Payload(Head(chunk_list)))
    /\ chunk_list' = Tail(chunk_list)
    /\ UNCHANGED <<prev_updates, run, action, disk, opened, dry_run, pc, k, vnt_lines, vnt_triples, tsv_lines,
                   tsv_lines_new, updates, all_updates, compare, err>>

\* a variant that notes the failure and goes on with the next chunk
SubmitChunkFails_Continues ==
    /\ pc = "submit"
    /\ chunk_list # << >>
    /\ ~dry_run
    /\ err' = "transport"
    /\ chunk_list' = Tail(chunk_list)
    /\ UNCHANGED <<prev_updates, run, action, vnt, disk, opened, dry_run, pc, k,
                   vnt_lines, vnt_triples, tsv_lines, tsv_lines_new, updates,
                   all_updates, compare, sent>>

\* the post of a chunk fails: raise_for_status raises (the test of the flag
\* and the failing post in one step, as in SubmitChunk)
SubmitChunkFails ==
    /\ pc = "submit"
    /\ chunk_list # << >>
    /\ ~dry_run
    /\ pc' = "failed"
    /\ err' = "transport"
    /\ UNCHANGED <<prev_updates, run, action, vnt, disk, opened, dry_run, k, vnt_lines, vnt_triples, tsv_lines,
                   tsv_lines_new, updates, all_updates, compare, chunk_list, sent>>

\* submit_updates returns
SubmitEnds ==
    /\ pc = "submit"
    /\ chunk_list = << >>
    /\ pc' = "done"
    /\ UNCHANGED <<prev_updates, run, action, vnt, disk, opened, dry_run, k, vnt_lines, vnt_triples, tsv_lines,
                   tsv_lines_new, updates, all_updates, compare, chunk_list, sent, err>>

\* the operator runs the script again: a new process, the same directory
\* and server
Rerun ==
    /\ pc \in {"done", "failed"}
    /\ run < MaxRuns
    /\ run' = run + 1
    /\ pc' = "loop"
    /\ k' = 1
    /\ vnt_lines' = << >>
    /\ vnt_triples' = << >>
    /\ tsv_lines' = << >>
    /\ tsv_lines_new' = << >>
    /\ updates' = << >>
    /\ all_updates' = << >>
    /\ action' = "None"
    /\ compare' = NewFrame
    /\ chunk_list' = << >>
    /\ err' = "none"
    /\ opened' = << >>
    /\ prev_updates' = all_updates
    /\ UNCHANGED <<vnt, disk, dry_run, sent>>

Next ==
    \/ ListingFails
    \/ SkipEmpty
    \/ FetchFails
    \/ ValidationFails
    \/ InitialDownload
    \/ LoadFails
    \/ CompareFails
    \/ CompareAsks
    \/ CompareReturns
    \/ GateAnswer
    \/ LoopEnds
    \/ ConfirmAnswer
    \/ SubmitChunk
    \/ SubmitChunkFails
    \/ SubmitEnds
    \/ Rerun

(***************************************************************************)
(* The server and the directory a run starts from                          *)
(***************************************************************************)
K == <<"k">>
O == <<"o">>
P == <<"p">>
A == <<"a">>
B == <<"b">>

RemoteLine(c, o, h) == [character_name |-> c, original |-> o, translations |-> h]

\* the translation histories of at most n entries over the given texts, each
\* entry a change of the translation
HistoriesOver(texts, n) ==
    {h \in UNION {[1..m -> {Entry(t) : t \in texts}] : m \in 0..n} :
        \A i \in 1..(Len(h) - 1) : h[i] # h[i + 1]}

\* the sequences of at most n (and at least lo) elements of a set
SeqsOver(S, lo, n) == UNION {[1..m -> S] : m \in lo..n}

\* the script number s of the project with the given lines: ids are unique
\* in the project, line numbers count from 0
MkScript(s, content) ==
    [id                |-> s,
     original_filename |-> <<s, ".txt">>,
     line_count        |-> Len(content),
     lines             |-> [i \in 1..Len(content) |->
                              [id             |-> 100 * s + i,
                               line_number    |-> i - 1,
                               character_name |-> content[i].character_name,
                               original       |-> content[i].original,
                               translations   |-> content[i].translations]]]

\* scripts whose text the validation or the codec treats specially
SpecialContents ==
    { <<RemoteLine(K, O, <<Entry(SENTINEL)>>)>>,
      <<RemoteLine(K, O, <<Entry(A \o <<NL>>)>>)>>,
      <<RemoteLine(K, O \o <<NL>>, <<Entry(A)>>)>>,
      <<RemoteLine(K, O \o <<NL>>, << >>)>>,
      <<RemoteLine(K, O, <<Entry(<<"a", NL, "b">>)>>)>>,
      <<RemoteLine(K, <<"o", NL, "p">>, <<Entry(A)>>)>>,
      <<RemoteLine(K, <<"o", NL, "p">>, << >>)>>,
      <<RemoteLine(K, O, <<Entry(SENTINEL \o <<NL>>)>>)>>,
      <<RemoteLine(K, O, <<Entry(<<"a", CR, "b">>)>>)>> }

\* a local file that is not three fields a line
MalformedFiles == { <<"k", TAB, "o", NL>> }

\* local files with a line of four fields, and with an empty line after a
\* line of three
OtherMalformedFiles ==
    { <<"k", TAB, "o", TAB, "a", TAB, "b", NL>>,
      <<"k", TAB, "o", TAB, "a", NL, NL>> }

\* local files with carriage returns: saved with "\r\n" line ends, with a
\* lone "\r" inside the original, and with a lone "\r" between two records
CarriageReturnFiles ==
    { <<"k", TAB, "o", TAB, "a", CR, NL>>,
      <<"k", TAB, "o", CR, "p", TAB, "a", NL>>,
      <<"k", TAB, "o", TAB, "a", CR, "k", TAB, "o", TAB, "b", NL>> }

\* a project of n scripts drawn from contents, the local file of each absent
\* or drawn from files
InitWith(n, contents, files) ==
    /\ \E cs \in [1..n -> contents] : vnt = [s \in 1..n |-> MkScript(s, cs[s])]
    /\ \E present \in SUBSET (1..n) :
         \E fs \in [present -> files] :
            disk = [f \in {<<s, ".tsv">> : s \in present} |-> fs[f[1]]]
    /\ dry_run = FALSE
    /\ pc = "loop"
    /\ k = 1
    /\ vnt_lines = << >>
    /\ vnt_triples = << >>
    /\ tsv_lines = << >>
    /\ tsv_lines_new = << >>
    /\ updates = << >>
    /\ all_updates = << >>
    /\ action = "None"
    /\ compare = NewFrame
    /\ chunk_list = << >>
    /\ sent = << >>
    /\ err = "none"
    /\ run = 1
    /\ opened = << >>
    /\ prev_updates = << >>

\* A project of NumScripts scripts of at most one line.
ProjContents ==
    SeqsOver({RemoteLine(K, O, h) : h \in {<< >>, <<Entry(B)>>, <<Entry(B), Entry(A)>>}},
             0, 1)
    \cup { <<RemoteLine(K, O, <<Entry(SENTINEL)>>)>> }

ProjFiles ==
    {dump_tsv_file(<<t>>) : t \in {<<K, o, tr>> : o \in {O, P}, tr \in {Empty, A}}}
    \cup MalformedFiles

Init == InitWith(NumScripts, ProjContents, ProjFiles)

Spec == Init /\ [][Next]_vars

\* A project of one script of at most MaxLines lines, each with a history of
\* at most MaxHist translations, and a local file of at most MaxLines records.
MergeContents ==
    SeqsOver({RemoteLine(K, O, h) : h \in HistoriesOver({A, B}, MaxHist)}, 0, MaxLines)
    \cup SpecialContents

\* the records of a local file: the character and the original of the
\* server's lines with or without a translation, and two records that differ
\* from them in the original or in the character
MergeRecords ==
    {<<K, O, tr>> : tr \in {Empty, A}} \cup {<<K, P, A>>, <<Empty, O, A>>}

MergeFiles ==
    {dump_tsv_file(tsv) : tsv \in SeqsOver(MergeRecords, 1, MaxLines)}
    \cup MalformedFiles \cup OtherMalformedFiles \cup CarriageReturnFiles

InitMerge == InitWith(1, MergeContents, MergeFiles)

SpecMerge == InitMerge /\ [][Next]_vars

(***************************************************************************)
(* submit_updates called on a list of updates                              *)
(***************************************************************************)
MaxUpdates == 53    \* updates in the list handed to submit_updates

\* a script of n lines that nobody has translated on the server
Untranslated(n) == [i \in 1..n |-> RemoteLine(K, O, << >>)]

\* the uploads compare_lines returns for the first n lines of script s when
\* each has a local translation and none on the server
NovelUpdates(s, n) == [i \in 1..n |-> <<100 * s + i, A>>]

\* submit_updates(updates) is called on n updates for the lines of the one
\* script of the project, the flag being one of flags
InitCall(flags) ==
    /\ \E n \in 0..MaxUpdates :
         /\ vnt = <<MkScript(1, Untranslated(n))>>
         /\ all_updates = NovelUpdates(1, n)
         /\ chunk_list = chunks(NovelUpdates(1, n), UPLOAD_CHUNK_SIZE)
    /\ disk = << >>
    /\ dry_run \in flags
    /\ pc = "submit"
    /\ k = 2
    /\ vnt_lines = << >>
    /\ vnt_triples = << >>
    /\ tsv_lines = << >>
    /\ tsv_lines_new = << >>
    /\ updates = << >>
    /\ action = "yes"
    /\ compare = NewFrame
    /\ sent = << >>
    /\ err = "none"
    /\ run = 1
    /\ opened = << >>
    /\ prev_updates = << >>

\* the flag is the module's global: whoever imports the module may assign it
\* at any moment of submit_updates, between two chunks or between the test
\* of the flag and the post
SetDryRun ==
    /\ pc \in {"submit", "post"}
    /\ dry_run' = ~dry_run
    /\ UNCHANGED <<vnt, disk, pc, k, vnt_lines, vnt_triples, tsv_lines, tsv_lines_new,
                   updates, all_updates, action, compare, chunk_list, sent, err, run,
                   opened, prev_updates>>

\* a variant that goes on to the post whatever the flag says
ReadFlag_IgnoresFlag ==
    /\ pc = "submit"
    /\ chunk_list # << >>
    /\ pc' = "post"
    /\ UNCHANGED <<vnt, disk, dry_run, k, vnt_lines, vnt_triples, tsv_lines,
                   tsv_lines_new, updates, all_updates, action, compare, chunk_list,
                   sent, err, run, opened, prev_updates>>

\* `if dry_run:` for the chunk the loop is at: with the flag set the chunk is
\* printed and the loop continues with the next one, with the flag clear
\* the post of the chunk is next
ReadFlag ==
    /\ pc = "submit"
    /\ chunk_list # << >>
    /\ IF dry_run
       THEN /\ chunk_list' = Tail(chunk_list)
            /\ pc' = pc
       ELSE /\ chunk_list' = chunk_list
            /\ pc' = "post"
    /\ UNCHANGED <<vnt, disk, dry_run, k, vnt_lines, vnt_triples, tsv_lines,
                   tsv_lines_new, updates, all_updates, action, compare, sent, err,
                   run, opened, prev_updates>>

\* requests.post of the chunk whose test found the flag clear; the server
\* receives it and the loop is at the next chunk
PostChunk ==
    /\ pc = "post"
    /\ sent' = Append(sent, Payload(Head(chunk_list)))
    /\ vnt' = ApplyUploads(vnt, Payload(Head(chunk_list)))
    /\ chunk_list' = Tail(chunk_list)
    /\ pc' = "submit"
    /\ UNCHANGED <<disk, dry_run, k, vnt_lines, vnt_triples, tsv_lines, tsv_lines_new,
                   updates, all_updates, action, compare, err, run, opened,
                   prev_updates>>

\* the post fails: raise_for_status raises and ends submit_updates
PostChunkFails ==
    /\ pc = "post"
    /\ pc' = "failed"
    /\ err' = "transport"
    /\ UNCHANGED <<vnt, disk, dry_run, k, vnt_lines, vnt_triples, tsv_lines,
                   tsv_lines_new, updates, all_updates, action, compare, chunk_list,
                   sent, run, opened, prev_updates>>

NextSubmit == SubmitChunk \/ SubmitChunkFails \/ SubmitEnds

\* the flag stays as the source sets it
InitSubmit == InitCall({FALSE})

SpecSubmit == InitSubmit /\ [][NextSubmit]_vars

NextDryRun == ReadFlag \/ PostChunk \/ PostChunkFails \/ SubmitEnds \/ SetDryRun

InitDryRun == InitCall(BOOLEAN)

SpecDryRun == InitDryRun /\ [][NextDryRun]_vars

(***************************************************************************)
(* A script whose uploads take more than one chunk                         *)
(***************************************************************************)
MaxTail == 2    \* lines of the script after its first UPLOAD_CHUNK_SIZE lines

\* the lines after the first chunk's: untranslated on the server, or with
\* one translation that ends or does not end in a line terminator
TailLines ==
    {RemoteLine(K, O, h) : h \in {<< >>, <<Entry(B)>>, <<Entry(B \o <<NL>>)>>}}

\* The one script has UPLOAD_CHUNK_SIZE lines that are translated in the
\* local file only, then from 1 to MaxTail lines drawn from TailLines, each
\* with or without a local translation.
InitResume ==
    /\ \E n \in 1..MaxTail :
         \E tail \in [1..n -> TailLines], trs \in [1..n -> {Empty, A}] :
            /\ vnt = <<MkScript(1, Untranslated(UPLOAD_CHUNK_SIZE) \o tail)>>
            /\ disk = [f \in {<<1, ".tsv">>} |->
                         dump_tsv_file([i \in 1..UPLOAD_CHUNK_SIZE |-> <<K, O, A>>]
                                       \o [i \in 1..n |-> <<K, O, trs[i]>>])]
    /\ dry_run = FALSE
    /\ pc = "loop"
    /\ k = 1
    /\ vnt_lines = << >>
    /\ vnt_triples = << >>
    /\ tsv_lines = << >>
    /\ tsv_lines_new = << >>
    /\ updates = << >>
    /\ all_updates = << >>
    /\ action = "None"
    /\ compare = NewFrame
    /\ chunk_list = << >>
    /\ sent = << >>
    /\ err = "none"
    /\ run = 1
    /\ opened = << >>
    /\ prev_updates = << >>

NextResume ==
    \/ ListingFails
    \/ FetchFails
    \/ CompareAsks
    \/ CompareReturns
    \/ GateAnswer
    \/ LoopEnds
    \/ ConfirmAnswer
    \/ SubmitChunk
    \/ SubmitChunkFails
    \/ SubmitEnds
    \/ Rerun

SpecResume == InitResume /\ [][NextResume]_vars

(***************************************************************************)
(* dump_tsv_file and load_tsv_file called on a list of records             *)
(***************************************************************************)
MaxRecs == 2    \* records in the list handed to dump_tsv_file

\* records with and without a translation, with the reserved string as
\* translation, with a translation to strip, with a tab, a carriage return
\* or a character outside ASCII in the original, with a translation that
\* ends in a carriage return
CodecRecords ==
    {<<K, o, t>> : o \in {O, Empty, <<TAB>>, <<CR>>, <<JA>>},
                   t \in {Empty, A, SENTINEL, A \o <<NL>>, A \o <<CR>>}}

CodecName == <<1, ".tsv">>

\* dump_tsv_file(tsv, filename) is about to be called on from 1 to MaxRecs
\* records; the file does not exist yet or holds an earlier dump
InitCodec ==
    /\ vnt_triples \in UNION {[1..n -> CodecRecords] : n \in 1..MaxRecs}
    /\ disk \in {<< >>, [f \in {CodecName} |-> dump_tsv_file(<<<<K, O, B>>>>)]}
    /\ pc = "dump"
    /\ vnt = << >>
    /\ dry_run = FALSE
    /\ k = 1
    /\ vnt_lines = << >>
    /\ tsv_lines = << >>
    /\ tsv_lines_new = << >>
    /\ updates = << >>
    /\ all_updates = << >>
    /\ action = "None"
    /\ compare = NewFrame
    /\ chunk_list = << >>
    /\ sent = << >>
    /\ err = "none"
    /\ run = 1
    /\ opened = << >>
    /\ prev_updates = << >>

\* dump_tsv_file runs to its end
CodecDump ==
    /\ pc = "dump"
    /\ disk' = WriteFile(disk, CodecName, vnt_triples)
    /\ opened' = Append(opened, CodecName)
    /\ pc' = "load"
    /\ UNCHANGED <<vnt, dry_run, k, vnt_lines, vnt_triples, tsv_lines, tsv_lines_new,
                   updates, all_updates, action, compare, chunk_list, sent, err, run,
                   prev_updates>>

\* the bytes the text layer of the file object of open(filename, "w")
\* gathers before it hands them on
CHUNK_SIZE == 8192

\* the writes print makes for the records of tsv, each with its length in
\* characters and in encoded bytes: the joined fields of a record, then its
\* line terminator
PrintWrites(tsv) ==
    [i \in 1..(2 * Len(tsv)) |->
        IF i % 2 = 1
        THEN LET line == DumpLine(tsv[(i + 1) \div 2])
             IN  [chars |-> Len(line) - 1, bytes |-> EncodedLen(line) - 1]
        ELSE [chars |-> 1, bytes |-> 1]]

\* the file object after one more write w.  Of the characters written so
\* far, flushed ones have reached the file and held ones wait, encoded in
\* pending bytes; seen lists the lengths, in characters, the file has had.
\* What waits is handed on before a write that would take the bytes over
\* CHUNK_SIZE, and after a write that takes them to CHUNK_SIZE or over.
TextWrite(st, w) ==
    LET before   == st.pending + w.bytes > CHUNK_SIZE
        flushed1 == IF before THEN st.flushed + st.held ELSE st.flushed
        held1    == (IF before THEN 0 ELSE st.held) + w.chars
        pending1 == (IF before THEN 0 ELSE st.pending) + w.bytes
        after    == pending1 >= CHUNK_SIZE
        flushed2 == IF after THEN flushed1 + held1 ELSE flushed1
        seen1    == IF before THEN Append(st.seen, flushed1) ELSE st.seen
    IN  [pending |-> IF after THEN 0 ELSE pending1,
         held    |-> IF after THEN 0 ELSE held1,
         flushed |-> flushed2,
         seen    |-> IF after THEN Append(seen1, flushed2) ELSE seen1]

\* the file object after the writes lo to hi, in their order (the test of
\* st.pending has the first half evaluated before the second starts)
RECURSIVE TextWrites(_, _, _, _)
TextWrites(writes, lo, hi, st) ==
    IF lo > hi \/ st.pending < 0 THEN st
    ELSE IF lo = hi THEN TextWrite(st, writes[lo])
    ELSE TextWrites(writes, (lo + hi) \div 2 + 1, hi,
                    TextWrites(writes, lo, (lo + hi) \div 2, st))

\* the lengths, in characters, the file has while dump_tsv_file(tsv,
\* filename) writes into the file object it has just opened
FlushedLengths(tsv) ==
    LET seen == TextWrites(PrintWrites(tsv), 1, 2 * Len(tsv),
                           [pending |-> 0, held |-> 0, flushed |-> 0,
                            seen |-> <<0>>]).seen
    IN  {seen[i] : i \in 1..Len(seen)}

\* what dump_tsv_file(tsv, filename) can leave in the file when it does not
\* run to its end.  An exception between two records leaves the with
\* statement, which closes the file: it holds the lines of the first n
\* records.  A process that is killed leaves what the file object had
\* handed on: nothing, or the dump up to one of its flushes.
CrashOutcomes(tsv) ==
    {dump_tsv_file(SubSeq(tsv, 1, n)) : n \in 0..Len(tsv)}
    \cup {SubSeq(dump_tsv_file(tsv), 1, m) : m \in FlushedLengths(tsv)}

\* dump_tsv_file does not run to its end: open(filename, "w") has emptied
\* the file and a part of the dump has reached it
CodecCrash ==
    /\ pc = "dump"
    /\ \E text \in CrashOutcomes(vnt_triples) :
          disk' = [f \in DOMAIN disk \cup {CodecName} |->
                     IF f = CodecName THEN text ELSE disk[f]]
    /\ opened' = Append(opened, CodecName)
    /\ pc' = "failed"
    /\ err' = "crash"
    /\ UNCHANGED <<vnt, dry_run, k, vnt_lines, vnt_triples, tsv_lines, tsv_lines_new,
                   updates, all_updates, action, compare, chunk_list, sent, run,
                   prev_updates>>

\* list(load_tsv_file(filename)) on the file just dumped
CodecLoad ==
    /\ pc = "load"
    /\ LET loaded == load_tsv_file(disk[CodecName])
       IN  /\ tsv_lines' = loaded.triples
           /\ err' = loaded.error
           /\ pc' = IF loaded.error = "none" THEN "done" ELSE "failed"
    /\ UNCHANGED <<vnt, disk, dry_run, k, vnt_lines, vnt_triples, tsv_lines_new,
                   updates, all_updates, action, compare, chunk_list, sent, run,
                   opened, prev_updates>>

NextCodec == CodecDump \/ CodecCrash \/ CodecLoad

SpecCodec == InitCodec /\ [][NextCodec]_vars

(***************************************************************************)
(* The last call of compare_lines, position by position                    *)
(***************************************************************************)
\* the loop of the last call ran to its end
LoopEnded == compare.where \in {"prompt", "returned"} \/ compare.raised = "aborted"

Positions == 1..Len(compare.tsv_lines)

LocalAt(i)   == compare.tsv_lines[i][3]
MergedAt(i)  == compare.tsv_lines_new[i][3]
\* the first entry of the line's history on the server, if any
RemoteAt(i)  ==
    IF compare.vnt_lines[i].translations = << >> THEN Empty
    ELSE compare.vnt_lines[i].translations[1].translation
HistoryAt(i) ==
    {compare.vnt_lines[i].translations[h].translation :
        h \in 1..Len(compare.vnt_lines[i].translations)}

NovelAt(i) == LocalAt(i) # Empty /\ LocalAt(i) # RemoteAt(i) /\ LocalAt(i) \notin HistoryAt(i)
StaleAt(i) == LocalAt(i) # Empty /\ LocalAt(i) # RemoteAt(i) /\ LocalAt(i) \in HistoryAt(i)

\* the uploads scheduled for the line at position i, the records made for it
UploadsAt(i) ==
    {u \in 1..Len(compare.updates) : compare.updates[u][1] = compare.vnt_lines[i].id}
RecordsAt(i) ==
    {r \in 1..Len(compare.overwrite_info) : compare.overwrite_info[r].line = i}

\* what sync_project received is what the call returned
Received ==
    compare.where = "returned" =>
        tsv_lines_new = compare.tsv_lines_new /\ updates = compare.updates

\* C1: when the loop of compare_lines has ended, every position whose local
\* translation is non-empty, differs from the server's current translation
\* and is no entry of the line's history has exactly one upload, of the pair
\* (line id, local text), and its merged translation is the local text; a
\* call that returns hands these to sync_project.
C1_NovelIsUploaded ==
    LoopEnded =>
        /\ \A i \in Positions :
              NovelAt(i) =>
                 /\ Cardinality(UploadsAt(i)) = 1
                 /\ \A u \in UploadsAt(i) :
                       compare.updates[u] = <<compare.vnt_lines[i].id, LocalAt(i)>>
                 /\ MergedAt(i) = LocalAt(i)
        /\ Received

C1_Witness ==
    /\ compare.where = "returned"
    /\ Len(compare.tsv_lines) = 2
    /\ NovelAt(1) /\ RemoteAt(1) # Empty
    /\ NovelAt(2) /\ RemoteAt(2) = Empty
    /\ Len(updates) = 2

\* C2: when the loop of compare_lines has ended, every position whose local
\* translation is non-empty, differs from the server's current translation
\* and is an entry of the line's history has the server's current
\* translation as merged translation, no upload and no overwrite record.
C2_StaleAdoptsRemote ==
    LoopEnded =>
        \A i \in Positions :
            StaleAt(i) =>
                /\ MergedAt(i) = RemoteAt(i)
                /\ UploadsAt(i) = {}
                /\ RecordsAt(i) = {}

C2_Witness ==
    /\ compare.where = "returned"
    /\ \E i \in Positions :
          /\ StaleAt(i)
          /\ LocalAt(i) = A /\ RemoteAt(i) = B
          /\ tsv_lines_new[i][3] = B

\* C3: when the loop of compare_lines has ended, every position whose local
\* translation is empty has the server's current translation as merged
\* translation and no upload.
C3_EmptyAdoptsRemote ==
    LoopEnded =>
        \A i \in Positions :
            LocalAt(i) = Empty => MergedAt(i) = RemoteAt(i) /\ UploadsAt(i) = {}

C3_Witness ==
    /\ compare.where = "returned"
    /\ \E i \in Positions :
          LocalAt(i) = Empty /\ RemoteAt(i) # Empty /\ tsv_lines_new[i][3] = RemoteAt(i)
    /\ \E i \in Positions :
          LocalAt(i) = Empty /\ RemoteAt(i) = Empty

\* C4: when the loop of compare_lines has ended, there are as many overwrite
\* records as positions with a novel local translation over a non-empty
\* current translation of the server, one for each; a novel local
\* translation over an empty one has an upload and no record.
C4_OneRecordPerOverwrite ==
    LoopEnded =>
        /\ Len(compare.overwrite_info)
              = Cardinality({i \in Positions : NovelAt(i) /\ RemoteAt(i) # Empty})
        /\ \A i \in Positions :
              /\ NovelAt(i) /\ RemoteAt(i) # Empty => Cardinality(RecordsAt(i)) = 1
              /\ NovelAt(i) /\ RemoteAt(i) = Empty =>
                    Cardinality(UploadsAt(i)) = 1 /\ RecordsAt(i) = {}

C4_Witness ==
    /\ compare.where = "prompt"
    /\ Len(compare.overwrite_info) = 1
    /\ Len(compare.updates) = 2
    /\ \E i \in Positions : NovelAt(i) /\ RemoteAt(i) = Empty
    /\ \E i \in Positions : NovelAt(i) /\ RemoteAt(i) # Empty

\* the local and the server's sequence are aligned
Aligned ==
    /\ Len(compare.tsv_lines) = Len(compare.vnt_lines)
    /\ \A i \in Positions :
          /\ compare.tsv_lines[i][1] = compare.vnt_lines[i].character_name
          /\ compare.tsv_lines[i][2] = compare.vnt_lines[i].original

\* C6: a call of compare_lines raises an alignment error exactly if the two
\* sequences differ in length or in the character or the original of some
\* position.
C6_AlignmentErrorIff ==
    compare.where # "new" =>
        ((compare.where = "raised" /\ compare.raised \in {"length", "alignment"})
            <=> ~Aligned)

C6_Witness ==
    /\ compare.where = "raised"
    /\ compare.raised = "alignment"
    /\ compare.at = 2
    /\ compare.tsv_lines[2][1] # compare.vnt_lines[2].character_name
    /\ compare.tsv_lines[2][2] = compare.vnt_lines[2].original

\* C5: a local store that is the dumped and loaded snapshot of the server
\* is reconciled with that snapshot without error, upload or overwrite
\* record, and comes back as it was; and loading a dumped snapshot does not
\* fail.
C5_RoundTripIsNoOp ==
    /\ (/\ compare.where # "new"
        /\ load_tsv_file(dump_tsv_file(compare.vnt_triples)).error = "none"
        /\ compare.tsv_lines = load_tsv_file(dump_tsv_file(compare.vnt_triples)).triples)
       => /\ compare.where = "returned"
          /\ compare.updates = << >>
          /\ compare.overwrite_info = << >>
          /\ compare.tsv_lines_new = compare.tsv_lines
    /\ (pc = "failed" /\ err = "format")
       => disk[TsvName(Script)] # dump_tsv_file(vnt_triples)

\* the step in which a call of compare_lines ends in an alignment error
AlignmentFailure ==
    pc = "loop" /\ pc' = "failed" /\ err' \in {"length", "alignment"}

ScriptLineIds == {Script.lines[i].id : i \in 1..Len(Script.lines)}

\* C7: in the step in which compare_lines raises an alignment error, the
\* local sequence passed to it is the loaded one, unchanged, the local file
\* and every other file but the recovery file keep their content, and the
\* queue of uploads stays as it was, with no line of this script in it.
C7_NoPartialMerge ==
    [][AlignmentFailure =>
          /\ compare'.tsv_lines = Loaded.triples
          /\ tsv_lines' = Loaded.triples
          /\ \A f \in DOMAIN disk \ {TsvName(Script) \o <<".1">>} :
                   f \in DOMAIN disk' /\ disk'[f] = disk[f]
          /\ all_updates' = all_updates
          /\ \A u \in 1..Len(all_updates') : all_updates'[u][1] \notin ScriptLineIds
          /\ tsv_lines_new' = tsv_lines_new
          /\ updates' = updates]_vars

\* the mismatch is at the second position, after an upload was decided for
\* the first
C7_Witness ==
    /\ pc = "failed"
    /\ err = "alignment"
    /\ compare.at = 2
    /\ Len(compare.updates) = 1
    /\ all_updates = << >>
    /\ disk[TsvName(Script)] = dump_tsv_file(compare.tsv_lines)

\* C8: a call of compare_lines that has recorded an overwrite leaves its
\* prompt for sync_project only on the answer 'proceed', and then returns
\* the merged store and every pending upload, which are queued; on 'abort'
\* it raises, sync_project receives and queues nothing and no file but the
\* recovery file is changed; on any other answer it stays at the prompt, and
\* when input() raises it returns nothing either: nothing is queued and no
\* file but the recovery file is changed.
C8_OperatorGate ==
    [][pc = "gate" =>
          /\ compare.overwrite_info # << >>
          /\ compare'.action = "proceed" =>
                /\ pc' = "loop" /\ k' = k + 1
                /\ compare'.where = "returned"
                /\ tsv_lines_new' = compare.tsv_lines_new
                /\ updates' = compare.updates
                /\ all_updates' = all_updates \o compare.updates
          /\ compare'.action = "abort" =>
                /\ pc' = "failed" /\ err' = "aborted"
                /\ compare'.where = "raised"
                /\ tsv_lines_new' = tsv_lines_new
                /\ updates' = updates
                /\ all_updates' = all_updates
                /\ \A f \in DOMAIN disk \ {TsvName(Script) \o <<".1">>} :
                   f \in DOMAIN disk' /\ disk'[f] = disk[f]
          /\ compare'.action \notin {"proceed", "abort"} =>
                /\ pc' \in {"gate", "failed"}
                /\ compare'.where # "returned"
                /\ pc' = "gate" => compare'.where = "prompt" /\ disk' = disk
                /\ pc' = "failed" => err' \in Interrupts
                /\ UNCHANGED <<tsv_lines_new, updates, all_updates>>
                /\ \A f \in DOMAIN disk \ {TsvName(Script) \o <<".1">>} :
                   f \in DOMAIN disk' /\ disk'[f] = disk[f]]_vars

\* 'proceed' has returned a flagged and an unflagged upload
C8_Witness ==
    /\ compare.where = "returned"
    /\ compare.action = "proceed"
    /\ Len(compare.overwrite_info) = 1
    /\ Len(updates) = 2
    /\ all_updates = updates

\* C9: a request is sent only by submit_updates, after the loop over the
\* scripts has ended and the operator has answered 'yes' at the final
\* prompt; the answer 'no' ends the run with no request sent and the
\* directory as it was.
C9_UploadOnlyAfterYes ==
    [][/\ sent' # sent => pc = "submit" /\ k > Len(vnt) /\ action = "yes"
       /\ (pc = "confirm" /\ action' = "no") =>
             pc' = "done" /\ sent' = sent /\ disk' = disk
       /\ pc \in {"loop", "gate", "confirm"} => sent' = sent
       /\ (pc = "done" /\ action = "no") => sent' = sent /\ disk' = disk]_vars

\* the operator has declined after the first script's file was rewritten
\* and the second script queued an upload
C9_Witness ==
    /\ pc = "done"
    /\ action = "no"
    /\ run = 1
    /\ sent = << >>
    /\ all_updates # << >>
    /\ \E s \in 1..Len(vnt) :
          /\ <<s, ".tsv">> \in DOMAIN disk
          /\ disk[<<s, ".tsv">>] = dump_tsv_file(<<<<K, O, B>>>>)
          /\ vnt[s].lines[1].translations = <<Entry(B), Entry(A)>>

\* the step in which a call of compare_lines ends in an exception
ReconcilerFailure ==
    pc \in {"loop", "gate"} /\ pc' = "failed"
    /\ err' \in {"length", "alignment", "aborted"}

\* C10: in the step in which compare_lines fails, the file named as the
\* local file with ".1" appended comes to hold the dump of the snapshot
\* generated from the script's lines on the server, and the local file
\* keeps its content.
C10_RecoveryFile ==
    [][ReconcilerFailure =>
          /\ TsvName(Script) \o <<".1">> \in DOMAIN disk'
          /\ disk'[TsvName(Script) \o <<".1">>]
                = dump_tsv_file(generate_tsv_from_vnt(Script.lines).triples)
          /\ disk'[TsvName(Script)] = disk[TsvName(Script)]]_vars

\* the operator has aborted at the prompt for the second script
C10_Witness ==
    /\ pc = "failed"
    /\ err = "aborted"
    /\ k = 2
    /\ disk[<<2, ".tsv", ".1">>] = dump_tsv_file(<<<<K, O, B>>>>)
    /\ disk[<<2, ".tsv">>] = dump_tsv_file(<<<<K, O, A>>>>)

(***************************************************************************)
(* The dispatcher's requests                                               *)
(***************************************************************************)
\* the chunks of the call, and how many of them the loop has gone through
AllChunks == chunks(all_updates, UPLOAD_CHUNK_SIZE)
GoneThrough == Len(AllChunks) - Len(chunk_list)

\* the updates of the received payloads, request after request
RECURSIVE Flatten(_)
Flatten(payloads) ==
    IF payloads = << >> THEN << >> ELSE Head(payloads) \o Flatten(Tail(payloads))

\* C12: the step in which the post of chunk j fails ends the submission with
\* the failure raised: the requests received are those of the chunks before
\* j, chunk j and the chunks after it stay unsent, and no later step of the
\* call sends a request or takes a chunk off the list.
C12_FailureStops ==
    [][/\ (err = "none" /\ err' = "transport") =>
             /\ pc = "submit" /\ pc' = "failed"
             /\ chunk_list # << >>
             /\ chunk_list' = chunk_list
             /\ sent' = sent
             /\ sent = [i \in 1..GoneThrough |-> Payload(AllChunks[i])]
             /\ chunk_list = SubSeq(AllChunks, GoneThrough + 1, Len(AllChunks))
       /\ err = "transport" =>
             pc = "failed" /\ sent' = sent /\ chunk_list' = chunk_list]_vars

\* the third chunk of 53 updates has failed after two were sent
C12_Witness ==
    /\ pc = "failed"
    /\ err = "transport"
    /\ Len(all_updates) = 53
    /\ Len(chunk_list) = 1
    /\ Len(sent) = 2

\* C13: when submit_updates returns, the flag clear and no post failed, the
\* server has received ceil(n / 25) requests for the n updates, each of 25
\* updates but the last, which has from 1 to 25, and the updates of the
\* requests in order are the updates of the list in order.
C13_ChunkedRequests ==
    (pc = "done" /\ ~dry_run) =>
        /\ Len(sent) = (Len(all_updates) + UPLOAD_CHUNK_SIZE - 1) \div UPLOAD_CHUNK_SIZE
        /\ \A j \in 1..Len(sent) :
              /\ Len(sent[j]) \in 1..UPLOAD_CHUNK_SIZE
              /\ j < Len(sent) => Len(sent[j]) = UPLOAD_CHUNK_SIZE
        /\ Flatten(sent) = Payload(all_updates)

\* 53 updates have gone out as requests of 25, 25 and 3
C13_Witness ==
    /\ pc = "done"
    /\ Len(all_updates) = 53
    /\ Len(sent) = 3
    /\ <<Len(sent[1]), Len(sent[2]), Len(sent[3])>> = <<25, 25, 3>>

\* the step in which submit_updates tests the flag for the chunk it is at
ChunkReached ==
    /\ pc = "submit"
    /\ chunk_list # << >>
    /\ <<pc, chunk_list>>' # <<pc, chunk_list>>

\* C14: the flag is tested for every chunk, as it is when the chunk is
\* reached and whatever it was for the chunks before.  A chunk reached
\* with the flag set leaves the list and nothing is sent; a chunk reached
\* with the flag clear stays at the head of the list for the post, and the
\* post, if it does not fail, sends that chunk and no other, even when the
\* flag has been set in between.  Nothing is sent in any other step.
C14_FlagReadPerChunk ==
    [][/\ ChunkReached =>
             IF dry_run
             THEN /\ chunk_list' = Tail(chunk_list)
                  /\ pc' = "submit"
                  /\ sent' = sent /\ vnt' = vnt
             ELSE /\ chunk_list' = chunk_list
                  /\ pc' = "post"
                  /\ sent' = sent /\ vnt' = vnt
       /\ pc = "post" =>
             \/ /\ sent' = Append(sent, Payload(Head(chunk_list)))
                /\ chunk_list' = Tail(chunk_list)
                /\ pc' = "submit"
             \/ /\ pc' = "failed"
                /\ err' = "transport"
                /\ UNCHANGED <<sent, vnt, chunk_list>>
             \/ UNCHANGED <<pc, sent, vnt, chunk_list>>
       /\ sent' # sent => pc = "post"]_vars

\* of three chunks the first went out, the second was reached while the
\* flag was set and left the list unsent, the third was reached while the
\* flag was clear and waits for its post, the flag having been set since
C14_Witness ==
    /\ pc = "post"
    /\ dry_run
    /\ Len(AllChunks) = 3
    /\ sent = <<Payload(AllChunks[1])>>
    /\ chunk_list = <<AllChunks[3]>>

\* the line ids of a list of updates, and of the requests received
UpdateIds(us) == {us[i][1] : i \in 1..Len(us)}
ReceivedIds == {Flatten(sent)[i].line.id : i \in 1..Len(Flatten(sent))}

\* the second run has ended its loop over the scripts after a first run
\* whose submission failed with some but not all of its updates received
ResumedAfterPartialUpload ==
    /\ run = 2
    /\ pc \in {"loop", "confirm"}
    /\ k > Len(vnt)
    /\ sent # << >>
    /\ Flatten(sent) # Payload(prev_updates)

\* C11: when a run follows a run whose submission failed after some chunks
\* were received, the files and the server touched by nothing else, every
\* upload the second run queues was queued by the first run, and none is for
\* a line whose upload the server has received.
C11_ResumeUploadsTheRest ==
    ResumedAfterPartialUpload =>
        /\ \A i \in 1..Len(all_updates) :
              \E j \in 1..Len(prev_updates) : all_updates[i] = prev_updates[j]
        /\ UpdateIds(all_updates) \cap ReceivedIds = {}

(***************************************************************************)
(* Validation of the lines of the server                                   *)
(***************************************************************************)
\* the line's current translation is the reserved string, or its original
\* or current translation has a line terminator inside
Invalid(line) ==
    \/ CurrentTranslation(line) = SENTINEL
    \/ HasNL(StripNL(line.original))
    \/ HasNL(StripNL(CurrentTranslation(line)))

\* sync_project is about to fetch the lines of a script that has some
AtScript == InLoop /\ Script.line_count # 0

\* the step is not one in which a GET of the server failed
Fetched == err' # "transport"

\* C15: when the script sync_project is at has an invalid line and the
\* server delivers its lines, the step ends the run with one of the two validation errors of
\* generate_tsv_from_vnt, and neither compares, nor writes a file, nor queues
\* or sends an upload.
C15_InvalidLineEndsRun ==
    [][(AtScript /\ Fetched /\ \E i \in 1..Len(Script.lines) : Invalid(Script.lines[i])) =>
          /\ pc' = "failed"
          /\ err' \in {"reserved", "internal newline"}
          /\ UNCHANGED <<disk, opened, compare, updates, all_updates, sent>>]_vars

\* C16: when no line of the script is invalid and some line has leading or
\* trailing line terminators to strip, generate_tsv_from_vnt does not fail
\* and yields the record of every line, whether the line has translations
\* or none.
C16_TrimmableLineIsYielded ==
    [][(/\ AtScript
        /\ \A i \in 1..Len(Script.lines) : ~Invalid(Script.lines[i])
        /\ \E i \in 1..Len(Script.lines) : LineWarns(Script.lines[i])) =>
          /\ pc' # "failed" \/ err' \notin {"reserved", "internal newline",
                                            "unbound line_number"}
          /\ vnt_triples' = [i \in 1..Len(Script.lines) |->
                                <<Script.lines[i].character_name,
                                  Script.lines[i].original,
                                  CurrentTranslation(Script.lines[i])>>]]_vars

(***************************************************************************)
(* What dump_tsv_file writes                                               *)
(***************************************************************************)
\* the step opens a file for writing
Writes == Len(opened') = Len(opened) + 1
WrittenName == opened'[Len(opened')]

\* the triples the step hands to dump_tsv_file: the snapshot for the
\* recovery file and for the first download, the merged store otherwise
WrittenTriples ==
    IF Len(WrittenName) = 3 \/ WrittenName \notin DOMAIN disk
    THEN vnt_triples'
    ELSE tsv_lines_new'

\* the third field of the i-th line of the file the step has written
WrittenTranslation(i) == Split(RStripNL(FileLines(disk'[WrittenName])[i]), TAB)[3]

\* C17: in a step that writes a file, a line of the file has '#' as its
\* translation field only if the translation of the record it was written
\* from is empty.
C17_SentinelOnlyForEmpty ==
    [][Writes =>
          /\ Len(FileLines(disk'[WrittenName])) = Len(WrittenTriples)
          /\ \A i \in 1..Len(WrittenTriples) :
                WrittenTranslation(i) = SENTINEL => WrittenTriples[i][3] = Empty]_vars

(***************************************************************************)
(* After a successful reconciliation                                       *)
(***************************************************************************)
\* the step in which compare_lines returns to sync_project
Reconciled == k' = k + 1 /\ compare' # compare /\ compare'.where = "returned"

\* the merged store of the returned call differs from the loaded store in
\* the translation of some position
TranslationChanged ==
    \E i \in 1..Len(compare'.tsv_lines) :
        compare'.tsv_lines[i][3] # compare'.tsv_lines_new[i][3]

\* C19: in the step in which compare_lines returns, sync_project opens the
\* local file for writing, and leaves in it the dump of the merged store, if
\* and only if some translation of the merged store differs from the loaded
\* one; otherwise it opens no file and the directory stays as it was; in
\* both cases the uploads of the call are appended to all_updates.
C19_RewriteIffChanged ==
    [][Reconciled =>
          /\ IF TranslationChanged
             THEN /\ opened' = Append(opened, TsvName(Script))
                  /\ disk' = WriteFile(disk, TsvName(Script), compare'.tsv_lines_new)
             ELSE opened' = opened /\ disk' = disk
          /\ all_updates' = all_updates \o compare'.updates]_vars

\* the first script's file was rewritten with the server's translation and
\* queued nothing; the second script's file was left alone and queued its
\* local translation
C19_Witness ==
    /\ run = 1
    /\ pc = "loop"
    /\ k = 3
    /\ opened = <<<<1, ".tsv">>>>
    /\ DOMAIN disk = {<<1, ".tsv">>, <<2, ".tsv">>}
    /\ disk[<<1, ".tsv">>] = dump_tsv_file(<<<<K, O, B>>>>)
    /\ disk[<<2, ".tsv">>] = dump_tsv_file(<<<<K, O, A>>>>)
    /\ compare.where = "returned"
    /\ compare.updates = <<<<201, A>>>>
    /\ all_updates = compare.updates

(***************************************************************************)
(* A dump and the load of it                                               *)
(***************************************************************************)
\* neither a tab nor a newline in the text
Plain(text) == \A i \in 1..Len(text) : text[i] \notin {TAB, NL}

\* C18: when no field of the dumped records holds a tab or a newline, the
\* load of the dumped file succeeds, returns as many records, and returns
\* each record whose translation is empty as it was: the same character
\* and original, the translation empty and not '#'.
C18_EmptyTranslationRoundTrip ==
    (/\ pc \in {"done", "failed"}
     /\ err # "crash"
     /\ \A i \in 1..Len(vnt_triples) :
           Plain(vnt_triples[i][1]) /\ Plain(vnt_triples[i][2]) /\ Plain(vnt_triples[i][3])) =>
        /\ pc = "done"
        /\ Len(tsv_lines) = Len(vnt_triples)
        /\ \A i \in 1..Len(vnt_triples) :
              vnt_triples[i][3] = Empty =>
                 /\ tsv_lines[i] = <<vnt_triples[i][1], vnt_triples[i][2], Empty>>
                 /\ tsv_lines[i][3] # SENTINEL

\* C20: in the step in which the process dies inside dump_tsv_file, the
\* file is left as it was before the call, absent if it was absent, or
\* holds the dump of all the records.
C20_DumpIsAtomic ==
    [][(pc = "dump" /\ err' = "crash") =>
          \/ disk' = disk
          \/ disk' = WriteFile(disk, CodecName, vnt_triples)]_vars

(***************************************************************************)
(* The two prompts                                                         *)
(***************************************************************************)
\* what the merge and the uploads consist of
MergeAndUploads ==
    <<vnt, disk, opened, tsv_lines, tsv_lines_new, updates, all_updates, chunk_list,
      sent, err, k>>

\* C21: at the prompt of compare_lines an answer other than 'abort' and
\* 'proceed' ('print' among them), and at the final prompt of sync_project
\* an answer other than 'yes' and 'no', leaves the run at the same prompt
\* with the merge and the uploads as they were; the run leaves the first
\* prompt only on 'abort' or 'proceed' and the final one only on 'yes', to
\* submit, or on 'no', to end.
C21_PromptsRepeat ==
    [][/\ pc = "gate" =>
             /\ compare'.action \notin {"abort", "proceed"} =>
                   /\ pc' = "gate"
                   /\ compare' = [compare EXCEPT !.action = compare'.action]
                   /\ UNCHANGED MergeAndUploads
             /\ pc' # "gate" => compare'.action \in {"abort", "proceed"}
             /\ pc' = "loop" => compare'.action = "proceed"
             /\ pc' = "failed" => compare'.action = "abort"
       /\ pc = "confirm" =>
             /\ action' \notin {"yes", "no"} =>
                   /\ pc' = "confirm"
                   /\ compare' = compare
                   /\ UNCHANGED MergeAndUploads
             /\ pc' # "confirm" => action' \in {"yes", "no"}
             /\ pc' = "submit" => action' = "yes"
             /\ pc' = "done" => action' = "no"]_vars

\* C21, with the failure of input(): an answer that is not recognised
\* leaves the run at the same prompt with the merge and the uploads as they
\* were, and only a recognised answer takes the run on ('proceed' to the
\* next script, 'abort' to the failure, 'yes' to the submission, 'no' to
\* the end); the run leaves a prompt without a recognised answer only when
\* input() raises, and then it ends with that exception, no answer recorded,
\* nothing queued or sent, and no file written but, at the first prompt,
\* the recovery file.
C21_PromptsRepeatUnlessInputFails ==
    [][/\ pc = "gate" =>
             /\ err' \in Interrupts =>
                   /\ pc' = "failed"
                   /\ compare'.action = compare.action
                   /\ opened' = Append(opened, RecoveryName(TsvName(Script)))
                   /\ \A f \in DOMAIN disk \ {RecoveryName(TsvName(Script))} :
                         f \in DOMAIN disk' /\ disk'[f] = disk[f]
                   /\ UNCHANGED <<vnt, tsv_lines, tsv_lines_new, updates, all_updates,
                                  chunk_list, sent, k>>
             /\ err' \notin Interrupts =>
                   /\ compare'.action \notin {"abort", "proceed"} =>
                         /\ pc' = "gate"
                         /\ compare' = [compare EXCEPT !.action = compare'.action]
                         /\ UNCHANGED MergeAndUploads
                   /\ pc' # "gate" => compare'.action \in {"abort", "proceed"}
                   /\ pc' = "loop" => compare'.action = "proceed"
                   /\ pc' = "failed" => compare'.action = "abort"
       /\ pc = "confirm" =>
             /\ err' \in Interrupts =>
                   /\ pc' = "failed"
                   /\ action' = action
                   /\ compare' = compare
                   /\ UNCHANGED <<vnt, disk, opened, tsv_lines, tsv_lines_new, updates,
                                  all_updates, chunk_list, sent, k>>
             /\ err' \notin Interrupts =>
                   /\ action' \notin {"yes", "no"} =>
                         /\ pc' = "confirm"
                         /\ compare' = compare
                         /\ UNCHANGED MergeAndUploads
                   /\ pc' # "confirm" => action' \in {"yes", "no"}
                   /\ pc' = "submit" => action' = "yes"
                   /\ pc' = "done" => action' = "no"]_vars

\* the input ended at the final prompt after the operator had typed an
\* answer that is not recognised: the run has failed with the uploads queued
\* and unsent
C21_InputFailed ==
    /\ pc = "failed"
    /\ err = "EOFError"
    /\ action = "proceed"
    /\ k > Len(vnt)
    /\ all_updates # << >>
    /\ sent = << >>

(***************************************************************************)
(* A local file that is not in the format                                  *)
(***************************************************************************)
\* some line of the text, its terminator taken off, does not split at the
\* tabs into exactly three fields
Malformed(text) ==
    \E i \in 1..Len(FileLines(text)) :
        Len(Split(RStripNL(FileLines(text)[i]), TAB)) # 3

\* C22: when the script sync_project is at has valid lines, which the
\* server delivers, and a local file with a line that is not three tab-separated fields, the
\* step ends the run with the format error of load_tsv_file; nothing has
\* been compared, no file is opened for writing, the directory stays as it
\* was and no upload is queued.
C22_MalformedFileEndsRun ==
    [][(/\ AtScript
        /\ Fetched
        /\ Generated.error = "none"
        /\ TsvName(Script) \in DOMAIN disk
        /\ Malformed(disk[TsvName(Script)])) =>
          /\ pc' = "failed"
          /\ err' = "format"
          /\ UNCHANGED <<disk, opened, compare, tsv_lines, tsv_lines_new, updates,
                         all_updates, sent>>]_vars

\* the run has ended on a local file with a line of four fields, and the
\* file is still the only one in the directory
C22_Witness ==
    /\ pc = "failed"
    /\ err = "format"
    /\ run = 1
    /\ opened = << >>
    /\ compare = NewFrame
    /\ DOMAIN disk = {<<1, ".tsv">>}
    /\ disk[<<1, ".tsv">>] = <<"k", TAB, "o", TAB, "a", TAB, "b", NL>>

(***************************************************************************)
(* A failed reconciliation and the rest of the project                     *)
(***************************************************************************)
ReconcilerErrors == {"length", "alignment", "aborted"}

\* C23: the step in which compare_lines fails for a script, by the
\* operator's 'abort' or by a mismatch, ends the run at that script: the
\* loop does not advance, the uploads queued so far stay queued and unsent,
\* and every file but the recovery file of the script keeps its content;
\* from then on the run processes no script, sends no request and writes no
\* file, and in a first run the server has received nothing.
C23_FailureStopsProject ==
    [][/\ (err = "none" /\ err' \in ReconcilerErrors) =>
             /\ pc' = "failed"
             /\ k' = k
             /\ all_updates' = all_updates
             /\ sent' = sent
             /\ \A f \in DOMAIN disk \ {RecoveryName(TsvName(Script))} :
                   f \in DOMAIN disk' /\ disk'[f] = disk[f]
       /\ err \in ReconcilerErrors =>
             /\ pc = "failed"
             /\ k <= Len(vnt)
             /\ run = 1 => sent = << >>
             /\ sent' = sent /\ disk' = disk
             /\ run' = run => UNCHANGED <<k, opened, all_updates>>]_vars

\* the first script's file was rewritten with the server's translation,
\* then the second script's file did not match the server's lines
C23_Witness ==
    /\ pc = "failed"
    /\ err = "alignment"
    /\ run = 1
    /\ k = 2
    /\ opened = <<<<1, ".tsv">>, <<2, ".tsv", ".1">>>>
    /\ disk[<<1, ".tsv">>] = dump_tsv_file(<<<<K, O, B>>>>)
    /\ tsv_lines_new = <<<<K, O, B>>>>
    /\ sent = << >>

(***************************************************************************)
(* What compare_lines may replace                                          *)
(***************************************************************************)
\* C24: when the loop of compare_lines has ended, at every position whose
\* local translation is non-empty and whose merged translation differs from
\* it, the local translation is an entry of the line's history on the
\* server and the merged translation is the server's current one.
C24_OnlyKnownTextReplaced ==
    LoopEnded =>
        \A i \in Positions :
            (LocalAt(i) # Empty /\ MergedAt(i) # LocalAt(i)) =>
                /\ LocalAt(i) \in HistoryAt(i)
                /\ MergedAt(i) = RemoteAt(i)

\* of two lines with the same local translation the call has kept the one
\* the server never had, after 'proceed', and replaced the one the server
\* had before its current translation
C24_Witness ==
    /\ compare.where = "returned"
    /\ compare.action = "proceed"
    /\ Len(compare.tsv_lines) = 2
    /\ \E i, j \in Positions :
          /\ LocalAt(i) = A /\ HistoryAt(i) = {B} /\ MergedAt(i) = A
          /\ LocalAt(j) = A /\ HistoryAt(j) = {A, B} /\ MergedAt(j) = B

(***************************************************************************)
(* What compare_lines returns                                              *)
(***************************************************************************)
\* the positions of the line an upload of the returned list is for
PositionsOf(u) == {i \in Positions : compare.vnt_lines[i].id = compare.updates[u][1]}

\* C26: when compare_lines has returned, the merged store has as many
\* records as the local store, each with the character and the original of
\* the local record at its position and with the local translation or the
\* server's current one; every upload is for one position, no position has
\* two uploads, and the uploads follow the order of the positions.
C26_ReturnedFrame ==
    compare.where = "returned" =>
        /\ Len(compare.tsv_lines_new) = Len(compare.tsv_lines)
        /\ \A i \in Positions :
              /\ compare.tsv_lines_new[i][1] = compare.tsv_lines[i][1]
              /\ compare.tsv_lines_new[i][2] = compare.tsv_lines[i][2]
              /\ MergedAt(i) \in {LocalAt(i), RemoteAt(i)}
              /\ Cardinality(UploadsAt(i)) <= 1
        /\ \A u \in 1..Len(compare.updates) : Cardinality(PositionsOf(u)) = 1
        /\ \A u, v \in 1..Len(compare.updates) :
              u < v => \A i \in PositionsOf(u), j \in PositionsOf(v) : i < j

\* the call has returned two uploads for two lines, the first line's first,
\* without a prompt
C26_Witness ==
    /\ compare.where = "returned"
    /\ compare.action = "None"
    /\ Len(compare.tsv_lines) = 2
    /\ Len(compare.updates) = 2
    /\ compare.updates[1][1] = compare.vnt_lines[1].id
    /\ compare.updates[2][1] = compare.vnt_lines[2].id
    /\ compare.tsv_lines_new = compare.tsv_lines

(***************************************************************************)
(* The run after a run that uploaded everything                            *)
(***************************************************************************)
\* the second run, before any answer 'yes' of its own, the first having
\* queued uploads and the server having received exactly those: every
\* prompt of the first run was answered 'proceed', the final one 'yes', and
\* no post failed
AfterFullRun ==
    /\ run = 2
    /\ action # "yes"
    /\ prev_updates # << >>
    /\ Flatten(sent) = Payload(prev_updates)

\* the local file of script s holds, line by line, the current translations
\* of the server
InSync(s) ==
    /\ TsvName(vnt[s]) \in DOMAIN disk
    /\ LET loaded == load_tsv_file(disk[TsvName(vnt[s])])
       IN  /\ loaded.error = "none"
           /\ Len(loaded.triples) = Len(vnt[s].lines)
           /\ \A i \in 1..Len(vnt[s].lines) :
                 loaded.triples[i][3] = CurrentTranslation(vnt[s].lines[i])

\* C25: throughout the run that follows a run that uploaded everything it
\* queued, every script with lines has a local file whose translations are
\* the server's current ones, no file is opened for writing, no prompt of
\* compare_lines is reached, no upload is queued and the run fails on
\* nothing but a request the server does not answer.
C25_SecondRunIsNoOp ==
    AfterFullRun =>
        /\ \A s \in 1..Len(vnt) : vnt[s].line_count # 0 => InSync(s)
        /\ opened = << >>
        /\ pc # "gate"
        /\ err \in {"none", "transport"}
        /\ all_updates = << >>
        /\ compare.updates = << >>

====
